---- MODULE Spec2Model ----
(***************************************************************************)
(* Model of the tax calculator (calculadora.py) and of the web request     *)
(* handler (app.py).                                                       *)
(*                                                                         *)
(* Numbers.  The program computes with Python floats.  The model computes  *)
(* with exact rationals [n |-> numerator, d |-> denominator], kept in      *)
(* lowest terms with d > 0, so that equal amounts are equal values.  The   *)
(* binary rounding of floats is not modelled.  A division by zero, which   *)
(* raises ZeroDivisionError in Python, yields the value ZeroDivisionError  *)
(* (d = 0), which every arithmetic operator propagates; a calculator whose *)
(* computation meets it returns Raised.                                    *)
(***************************************************************************)
EXTENDS Integers, Sequences, FiniteSets, TLC

----------------------------------------------------------------------------
(* Exact rational arithmetic standing for float arithmetic.                *)

Abs(x) == IF x < 0 THEN -x ELSE x

RECURSIVE GCD(_, _)
GCD(a, b) == IF b = 0 THEN a ELSE GCD(b, a % b)

ZeroDivisionError == [n |-> 1, d |-> 0]

IsErr(a) == a.d = 0

Rat(n, d) ==
    IF d = 0 THEN ZeroDivisionError
    ELSE LET s == IF d < 0 THEN -1 ELSE 1
             g == GCD(Abs(n), Abs(d))
         IN  [n |-> (s * n) \div g, d |-> (s * d) \div g]

R(i) == [n |-> i, d |-> 1]

Zero == R(0)

RAdd(a, b) ==
    IF IsErr(a) \/ IsErr(b) THEN ZeroDivisionError
    ELSE LET g == GCD(a.d, b.d)
         IN  Rat(a.n * (b.d \div g) + b.n * (a.d \div g), (a.d \div g) * b.d)

RNeg(a) == IF IsErr(a) THEN ZeroDivisionError ELSE [n |-> -a.n, d |-> a.d]

RSub(a, b) == RAdd(a, RNeg(b))

RMul(a, b) ==
    IF IsErr(a) \/ IsErr(b) THEN ZeroDivisionError
    ELSE LET g1 == GCD(Abs(a.n), b.d)
             g2 == GCD(Abs(b.n), a.d)
         IN  Rat((a.n \div g1) * (b.n \div g2), (a.d \div g2) * (b.d \div g1))

RDiv(a, b) ==
    IF IsErr(a) \/ IsErr(b) \/ b.n = 0 THEN ZeroDivisionError
    ELSE RMul(a, Rat(b.d, b.n))

\* Comparison by integer parts first, then by the fractional remainders.
\* (A comparison Python never reaches, because the division before it raised,
\* is FALSE.)
RLt(a, b) ==
    IF IsErr(a) \/ IsErr(b) THEN FALSE
    ELSE IF a.n \div a.d # b.n \div b.d THEN a.n \div a.d < b.n \div b.d
    ELSE (a.n % a.d) * b.d < (b.n % b.d) * a.d
RLe(a, b) == IF IsErr(a) \/ IsErr(b) THEN FALSE ELSE ~RLt(b, a)
RGt(a, b) == RLt(b, a)
RGe(a, b) == RLe(b, a)

RMax(a, b) == IF RGe(a, b) THEN a ELSE b   \* Python max(a, b): the first maximum
RAbs(a) == IF IsErr(a) THEN a ELSE [n |-> Abs(a.n), d |-> a.d]

RECURSIVE RSum(_)
RSum(s) == IF s = <<>> THEN Zero ELSE RAdd(Head(s), RSum(Tail(s)))

\* Python list slices s[k:] and s[:k] for 0 <= k.
SliceFrom(s, k) == IF k >= Len(s) THEN <<>> ELSE SubSeq(s, k + 1, Len(s))
SliceTo(s, k) == IF k >= Len(s) THEN s ELSE SubSeq(s, 1, k)

----------------------------------------------------------------------------
(* The Simples Nacional tables: (limite, aliquota, deducao).               *)

Faixa(limite, aliqMil, deducao) ==
    [limite |-> R(limite), aliquota |-> Rat(aliqMil, 1000), deducao |-> R(deducao)]

ANEXO_I_COMERCIO ==
    << Faixa(180000, 40, 0),
       Faixa(360000, 73, 5940),
       Faixa(720000, 95, 13860),
       Faixa(1800000, 107, 22500),
       Faixa(3600000, 143, 87300),
       Faixa(4800000, 190, 378000) >>

ANEXO_III_SERVICOS ==
    << Faixa(180000, 60, 0),
       Faixa(360000, 112, 9360),
       Faixa(720000, 135, 17640),
       Faixa(1800000, 160, 35640),
       Faixa(3600000, 210, 125640),
       Faixa(4800000, 330, 648000) >>

ANEXO_V_SERVICOS_INTELECTUAIS ==
    << Faixa(180000, 155, 0),
       Faixa(360000, 180, 4500),
       Faixa(720000, 195, 11250),
       Faixa(1800000, 205, 17100),
       Faixa(3600000, 230, 62100),
       Faixa(4800000, 305, 540000) >>

Tabela(nome) ==
    CASE nome = "ANEXO_I_COMERCIO" -> ANEXO_I_COMERCIO
      [] nome = "ANEXO_III_SERVICOS" -> ANEXO_III_SERVICOS
      [] nome = "ANEXO_V_SERVICOS_INTELECTUAIS" -> ANEXO_V_SERVICOS_INTELECTUAIS

TabelaNomes == {"ANEXO_I_COMERCIO", "ANEXO_III_SERVICOS", "ANEXO_V_SERVICOS_INTELECTUAIS"}

----------------------------------------------------------------------------
(* _get_faixa_simples: the loop over the table, entry i onwards.           *)

RECURSIVE FaixaLoop(_, _, _)
FaixaLoop(rbt12, tabela, i) ==
    IF i > Len(tabela)
    THEN [aliquota |-> tabela[Len(tabela)].aliquota,
          deducao |-> tabela[Len(tabela)].deducao,
          faixa |-> Len(tabela)]
    ELSE IF RLe(rbt12, tabela[i].limite)
         THEN [aliquota |-> tabela[i].aliquota, deducao |-> tabela[i].deducao, faixa |-> i]
         ELSE FaixaLoop(rbt12, tabela, i + 1)

\* The same loop with < for <=: a revenue equal to a ceiling moves up a bracket.
RECURSIVE FaixaLoopLt(_, _, _)
FaixaLoopLt(rbt12, tabela, i) ==
    IF i > Len(tabela)
    THEN [aliquota |-> tabela[Len(tabela)].aliquota,
          deducao |-> tabela[Len(tabela)].deducao,
          faixa |-> Len(tabela)]
    ELSE IF RLt(rbt12, tabela[i].limite)
         THEN [aliquota |-> tabela[i].aliquota, deducao |-> tabela[i].deducao, faixa |-> i]
         ELSE FaixaLoopLt(rbt12, tabela, i + 1)

GetFaixaSimplesLt(rbt12, tabela) == FaixaLoopLt(rbt12, tabela, 1)

GetFaixaSimples(rbt12, tabela) == FaixaLoop(rbt12, tabela, 1)

----------------------------------------------------------------------------
(* Python values.                                                          *)

\* Optional[float]: None, or a number.
None == [some |-> FALSE]
Some(v) == [some |-> TRUE, v |-> v]

\* `x or y` for an Optional[float] x: None and 0 are both falsy.
PyOr(x, y) == IF x.some /\ x.v # Zero THEN x.v ELSE y

\* dict.get(key, default)
Get(f, k, dflt) == IF k \in DOMAIN f THEN f[k] ELSE dflt

\* `a / b if b > 0 else 0`
GuardedDiv(a, b) == IF RGt(b, Zero) THEN RDiv(a, b) ELSE Zero

Raised == [raised |-> "ZeroDivisionError"]

----------------------------------------------------------------------------
(* CalculadoraTributariaAvancada.__init__ with its keyword arguments kw, which is    *)
(* [s: the scalar keywords given, mes: the mes_<i> given (i in 0..11),     *)
(*  projecao: the projecao_<i> given (i in 1..6)].                         *)

MesesAnteriores(kw) ==
    [i \in 1..12 |->
        LET mes_valor == Get(kw.mes, i - 1, Zero)
        IN  IF mes_valor # Zero THEN mes_valor ELSE Zero]

Projecoes(kw, meses_anteriores) ==
    [i \in 1..6 |->
        LET proj == Get(kw.projecao, i, Zero)
        IN  IF proj # Zero THEN proj
            ELSE IF Len(meses_anteriores) >= 3
                 THEN RDiv(RSum(SliceFrom(meses_anteriores, Len(meses_anteriores) - 3)), R(3))
                 ELSE Zero]

Construct(kw) ==
    LET modo_calculo == Get(kw.s, "modo_calculo", "simples")
        faturamento_vendas == Get(kw.s, "faturamento_vendas", Zero)
        faturamento_servicos == Get(kw.s, "faturamento_servicos", Zero)
        faturamento_total == RAdd(faturamento_vendas, faturamento_servicos)
        meses_anteriores == IF modo_calculo = "detalhado" THEN MesesAnteriores(kw) ELSE <<>>
    IN  [modo_calculo |-> modo_calculo,
         faturamento_vendas |-> faturamento_vendas,
         faturamento_servicos |-> faturamento_servicos,
         faturamento_total |-> faturamento_total,
         servicoIntelectual |-> Get(kw.s, "servicoIntelectual", FALSE),
         meses_anteriores |-> meses_anteriores,
         rbt12 |-> IF modo_calculo = "detalhado"
                   THEN RSum(meses_anteriores)
                   ELSE Get(kw.s, "rbt12_direto", Get(kw.s, "rbt12", faturamento_total)),
         projecoes |-> IF modo_calculo = "detalhado"
                       THEN Projecoes(kw, meses_anteriores)
                       ELSE <<>>,
         folha_salarial |-> Get(kw.s, "folha_salarial", Zero),
         prolabore |-> Get(kw.s, "prolabore", Zero),
         base_inss_salario |-> Get(kw.s, "base_inss_salario", Zero),
         base_inss_prolabore |-> Get(kw.s, "base_inss_prolabore", Zero),
         fgts_anual |-> Get(kw.s, "fgts_anual", Zero),
         cmv |-> Get(kw.s, "cmv", Zero),
         despesas_operacionais |-> Get(kw.s, "despesas_operacionais", Zero)]

----------------------------------------------------------------------------
(* _calcular_rbt12_mes(mes_futuro): the months summed, and their sum.      *)

\* The window shifted one month too far: meses_anteriores[mes_futuro + 1:].
MesesCalcOffByOne(self, mes_futuro) ==
    SliceFrom(self.meses_anteriores, mes_futuro + 1) \o SliceTo(self.projecoes, mes_futuro)

MesesCalc(self, mes_futuro) ==
    SliceFrom(self.meses_anteriores, mes_futuro) \o SliceTo(self.projecoes, mes_futuro)

CalcularRbt12Mes(self, mes_futuro) ==
    IF self.modo_calculo # "detalhado" THEN self.rbt12
    ELSE IF mes_futuro = 0 THEN self.rbt12
    ELSE RSum(MesesCalc(self, mes_futuro))

----------------------------------------------------------------------------
(* calcular_simples_nacional(rbt12_custom)                                 *)

RbtUsado(self, rbt12_custom) == PyOr(rbt12_custom, self.rbt12)

FatorR(self) ==
    GuardedDiv(RAdd(self.folha_salarial, self.prolabore), self.faturamento_total)

FatorRLimite == Rat(28, 100)

\* `fator_r > 0.28` for `fator_r >= 0.28`.
TabelaServicosGt(self) ==
    IF self.servicoIntelectual
    THEN IF RGt(FatorR(self), FatorRLimite)
         THEN "ANEXO_III_SERVICOS"
         ELSE "ANEXO_V_SERVICOS_INTELECTUAIS"
    ELSE "ANEXO_III_SERVICOS"

TabelaServicos(self) ==
    IF self.servicoIntelectual
    THEN IF RGe(FatorR(self), FatorRLimite)
         THEN "ANEXO_III_SERVICOS"
         ELSE "ANEXO_V_SERVICOS_INTELECTUAIS"
    ELSE "ANEXO_III_SERVICOS"

\* The effective rate without the deduction: the nominal rate.
AliqEfetivaSemDeducao(rbt12_usado, f) ==
    GuardedDiv(RMul(rbt12_usado, f.aliquota), rbt12_usado)

\* ((rbt12_usado * aliq_nom) - deducao) / rbt12_usado if rbt12_usado > 0 else 0
AliqEfetiva(rbt12_usado, f) ==
    GuardedDiv(RSub(RMul(rbt12_usado, f.aliquota), f.deducao), rbt12_usado)

\* The part of calcular_simples_nacional after the zero-revenue return.
SimplesNacionalCalculo(self, rbt12_usado) ==
    LET vendas == RGt(self.faturamento_vendas, Zero)
        servicos == RGt(self.faturamento_servicos, Zero)
        fv == GetFaixaSimples(rbt12_usado, ANEXO_I_COMERCIO)
        imposto_vendas ==
            IF vendas THEN RMul(self.faturamento_vendas, AliqEfetiva(rbt12_usado, fv))
            ELSE Zero
        faixa_vendas == IF vendas THEN fv.faixa ELSE 1
        tabela_servicos == IF servicos THEN TabelaServicos(self) ELSE "unassigned"
        fs == GetFaixaSimples(rbt12_usado, Tabela(tabela_servicos))
        imposto_servicos ==
            IF servicos THEN RMul(self.faturamento_servicos, AliqEfetiva(rbt12_usado, fs))
            ELSE Zero
        faixa_servicos == IF servicos THEN fs.faixa ELSE 1
        imposto_das_total == RAdd(imposto_vendas, imposto_servicos)
        custo_total == RAdd(imposto_das_total, self.fgts_anual)
        fator_r == IF servicos /\ self.servicoIntelectual THEN FatorR(self) ELSE Zero
    IN  [result |->
            IF IsErr(custo_total) \/ IsErr(fator_r) THEN Raised
            ELSE [imposto_das |-> imposto_das_total,
                  carga_tributaria_total |-> custo_total,
                  faixa |-> IF faixa_vendas >= faixa_servicos
                            THEN faixa_vendas ELSE faixa_servicos,
                  rbt12_usado |-> rbt12_usado],
         locals |-> [rbt12_usado |-> rbt12_usado, tabela_servicos |-> tabela_servicos]]

SimplesNacionalZero(rbt12_usado) ==
    [result |-> [imposto_das |-> Zero,
                 carga_tributaria_total |-> Zero,
                 lucro_liquido |-> Zero,
                 aliquota_efetiva |-> Zero,
                 faixa |-> 1],
     locals |-> [rbt12_usado |-> rbt12_usado, tabela_servicos |-> "unassigned"]]

\* Without the zero-revenue return.
SimplesNacionalNoBaseCase(self, rbt12_custom) ==
    SimplesNacionalCalculo(self, RbtUsado(self, rbt12_custom))

SimplesNacional(self, rbt12_custom) ==
    IF self.faturamento_total = Zero
    THEN SimplesNacionalZero(RbtUsado(self, rbt12_custom))
    ELSE SimplesNacionalCalculo(self, RbtUsado(self, rbt12_custom))

----------------------------------------------------------------------------
(* calcular_lucro_presumido() and calcular_lucro_real()                    *)

Pct(a, num, den) == RMul(a, Rat(num, den))

InssPatronal(self) ==
    RAdd(Pct(self.base_inss_salario, 258, 1000), Pct(self.base_inss_prolabore, 20, 100))

EncargosTotais(self) == RAdd(InssPatronal(self), self.fgts_anual)

LimiteAdicional == R(240000)

\* The surtax without its floor at 0.
AdicionalIrpjNoFloor(base) == Pct(RSub(base, LimiteAdicional), 10, 100)

AdicionalIrpj(base) == Pct(RMax(Zero, RSub(base, LimiteAdicional)), 10, 100)

LucroPresumido(self) ==
    LET base_irpj == RAdd(Pct(self.faturamento_vendas, 8, 100),
                          Pct(self.faturamento_servicos, 32, 100))
        base_csll == RAdd(Pct(self.faturamento_vendas, 12, 100),
                          Pct(self.faturamento_servicos, 32, 100))
        irpj == Pct(base_irpj, 15, 100)
        adicional_irpj == AdicionalIrpj(base_irpj)
        csll == Pct(base_csll, 9, 100)
        pis == Pct(self.faturamento_total, 65, 10000)
        cofins == Pct(self.faturamento_total, 3, 100)
        impostos_federais == RAdd(RAdd(RAdd(RAdd(irpj, adicional_irpj), csll), pis), cofins)
    IN  [result |-> [irpj |-> irpj,
                     adicional_irpj |-> adicional_irpj,
                     csll |-> csll,
                     pis |-> pis,
                     cofins |-> cofins,
                     inss_patronal |-> InssPatronal(self),
                     carga_tributaria_total |-> RAdd(impostos_federais, EncargosTotais(self))],
         locals |-> [base_irpj |-> base_irpj, base_csll |-> base_csll]]

LucroContabil(self) ==
    RSub(RSub(RSub(RSub(RSub(self.faturamento_total, self.cmv), self.despesas_operacionais),
                   self.folha_salarial), self.prolabore), self.fgts_anual)

LucroRealPrejuizo(self, lucro_contabil) ==
    [irpj |-> Zero,
     adicional_irpj |-> Zero,
     csll |-> Zero,
     pis |-> Zero,
     cofins |-> Zero,
     prejuizo_fiscal |-> RAbs(lucro_contabil),
     carga_tributaria_total |-> EncargosTotais(self)]

LucroRealLucro(self, lucro_contabil) ==
    LET irpj == Pct(lucro_contabil, 15, 100)
        adicional_irpj == AdicionalIrpj(lucro_contabil)
        csll == Pct(lucro_contabil, 9, 100)
        pis_a_pagar == RMax(Zero, RSub(Pct(self.faturamento_total, 165, 10000),
                                       Pct(self.cmv, 165, 10000)))
        cofins_a_pagar == RMax(Zero, RSub(Pct(self.faturamento_total, 76, 1000),
                                          Pct(self.cmv, 76, 1000)))
        impostos_federais ==
            RAdd(RAdd(RAdd(RAdd(irpj, adicional_irpj), csll), pis_a_pagar), cofins_a_pagar)
    IN  [irpj |-> irpj,
         adicional_irpj |-> adicional_irpj,
         csll |-> csll,
         pis |-> pis_a_pagar,
         cofins |-> cofins_a_pagar,
         lucro_contabil |-> lucro_contabil,
         carga_tributaria_total |-> RAdd(impostos_federais, EncargosTotais(self))]

\* `lucro_contabil < 0` for `lucro_contabil <= 0`: a profit of exactly 0 is taxed.
LucroRealLt(self) ==
    [result |-> IF RLt(LucroContabil(self), Zero)
                THEN LucroRealPrejuizo(self, LucroContabil(self))
                ELSE LucroRealLucro(self, LucroContabil(self)),
     locals |-> [lucro_contabil |-> LucroContabil(self)]]

LucroReal(self) ==
    [result |-> IF RLe(LucroContabil(self), Zero)
                THEN LucroRealPrejuizo(self, LucroContabil(self))
                ELSE LucroRealLucro(self, LucroContabil(self)),
     locals |-> [lucro_contabil |-> LucroContabil(self)]]

----------------------------------------------------------------------------
(* analisar_mudanca_faixa()                                                *)

\* faixas_nome, without the ordinal sign of the source strings.
FaixasNome == <<"1a Faixa", "2a Faixa", "3a Faixa", "4a Faixa", "5a Faixa", "6a Faixa">>

LimiteCritico == R(5000)

Min2(a, b) == IF a <= b THEN a ELSE b

\* One iteration of the loop: the alert of month `mes`, or no alert.
AlertasDoMes(self, mes) ==
    LET rbt12_atual == CalcularRbt12Mes(self, mes)
        rbt12_proximo == CalcularRbt12Mes(self, mes + 1)
        resultado_atual == SimplesNacional(self, Some(rbt12_atual)).result
        resultado_proximo == SimplesNacional(self, Some(rbt12_proximo)).result
        faixa_atual == resultado_atual.faixa
        faixa_proxima == resultado_proximo.faixa
        impacto_mensal == RDiv(RSub(resultado_proximo.carga_tributaria_total,
                                    resultado_atual.carga_tributaria_total), R(12))
    IN  IF faixa_atual # faixa_proxima
        THEN << [mes |-> mes + 1,
                 de_faixa |-> FaixasNome[faixa_atual],
                 para_faixa |-> FaixasNome[faixa_proxima],
                 rbt12_atual |-> rbt12_atual,
                 rbt12_novo |-> rbt12_proximo,
                 impacto_mensal |-> impacto_mensal,
                 alerta |-> IF RGt(RAbs(impacto_mensal), LimiteCritico)
                            THEN "critico" ELSE "moderado",
                 subindo |-> faixa_proxima > faixa_atual] >>
        ELSE <<>>

RECURSIVE AlertasLoop(_, _, _)
AlertasLoop(self, mes, fim) ==
    IF mes >= fim THEN <<>>
    ELSE AlertasDoMes(self, mes) \o AlertasLoop(self, mes + 1, fim)

AnalisarMudancaFaixa(self) ==
    IF self.modo_calculo # "detalhado" THEN <<>>
    ELSE AlertasLoop(self, 0, Min2(6, Len(self.projecoes)))

----------------------------------------------------------------------------
(* sugerir_otimizacoes().  A suggestion keeps its tipo and prioridade and  *)
(* the values its texts are formatted from.                                *)

RECURSIVE SugestoesMudanca(_)
SugestoesMudanca(mudancas) ==
    IF mudancas = <<>> THEN <<>>
    ELSE LET mudanca == Head(mudancas)
         IN  (IF mudanca.subindo /\ mudanca.alerta = "critico"
              THEN << [tipo |-> "mudanca_faixa",
                       prioridade |-> "alta",
                       mes |-> mudanca.mes,
                       de_faixa |-> mudanca.de_faixa,
                       para_faixa |-> mudanca.para_faixa,
                       impacto_mensal |-> mudanca.impacto_mensal,
                       diferenca_rbt |-> RSub(mudanca.rbt12_novo, mudanca.rbt12_atual)] >>
              ELSE <<>>) \o SugestoesMudanca(Tail(mudancas))

SugestaoFatorR(self) ==
    IF self.servicoIntelectual /\ RGt(self.faturamento_servicos, Zero)
       /\ RLt(FatorR(self), FatorRLimite)
    THEN << [tipo |-> "fator_r",
             prioridade |-> "media",
             fator_r |-> FatorR(self),
             aumento_necessario |->
                 RSub(RMul(FatorRLimite, self.faturamento_total),
                      RAdd(self.folha_salarial, self.prolabore))] >>
    ELSE <<>>

\* The regimes dict, in insertion order.
Regimes(self) ==
    << [nome |-> "Simples Nacional",
        valor |-> SimplesNacional(self, None).result.carga_tributaria_total],
       [nome |-> "Lucro Presumido",
        valor |-> LucroPresumido(self).result.carga_tributaria_total],
       [nome |-> "Lucro Real",
        valor |-> LucroReal(self).result.carga_tributaria_total] >>

\* min(d, key=d.get): the first key, in iteration order, of the least value.
RECURSIVE MinKeyLoop(_, _, _)
MinKeyLoop(d, i, best) ==
    IF i > Len(d) THEN d[best].nome
    ELSE MinKeyLoop(d, i + 1, IF RLt(d[i].valor, d[best].valor) THEN i ELSE best)

MinKey(d) == MinKeyLoop(d, 2, 1)

RECURSIVE MaxValor(_)
MaxValor(d) == IF Len(d) = 1 THEN d[1].valor ELSE RMax(d[1].valor, MaxValor(Tail(d)))

RECURSIVE MinValor(_)
MinValor(d) ==
    IF Len(d) = 1 THEN d[1].valor
    ELSE LET m == MinValor(Tail(d)) IN IF RLe(d[1].valor, m) THEN d[1].valor ELSE m

LimiteEconomia == R(10000)

\* `economia_potencial >= 10000` for `> 10000`.
SugestaoRegimeGe(self) ==
    LET regimes == Regimes(self)
        economia_potencial == RSub(MaxValor(regimes), MinValor(regimes))
    IN  IF RGe(economia_potencial, LimiteEconomia)
        THEN << [tipo |-> "regime_tributario",
                 prioridade |-> "alta",
                 melhor_regime |-> MinKey(regimes),
                 economia_potencial |-> economia_potencial] >>
        ELSE <<>>

SugestaoRegime(self) ==
    LET regimes == Regimes(self)
        economia_potencial == RSub(MaxValor(regimes), MinValor(regimes))
    IN  IF RGt(economia_potencial, LimiteEconomia)
        THEN << [tipo |-> "regime_tributario",
                 prioridade |-> "alta",
                 melhor_regime |-> MinKey(regimes),
                 economia_potencial |-> economia_potencial] >>
        ELSE <<>>

SugerirOtimizacoes(self) ==
    SugestoesMudanca(AnalisarMudancaFaixa(self)) \o SugestaoFatorR(self) \o SugestaoRegime(self)

----------------------------------------------------------------------------
(* The state: the keyword arguments the calculator was built from, the     *)
(* calculator object, the last call made on it with what it returned, the  *)
(* _get_faixa_simples call before the last one, and the handler's session. *)

VARIABLES kwargs, self, ret, hist, session

vars == <<kwargs, self, ret, hist, session>>

NoCall == [op |-> "none"]

NoSession == [set |-> FALSE]

----------------------------------------------------------------------------
(* The inputs explored.                                                    *)

Kw(s, mes, projecao) == [s |-> s, mes |-> mes, projecao |-> projecao]

NoKeys == [k \in {} |-> Zero]

EmptyKw == Kw(NoKeys, NoKeys, NoKeys)

\* How the rolling revenue is given in direct mode: not at all (it is then
\* the total revenue), as rbt12, as rbt12_direto, or as both (rbt12_direto wins).
RbtKeys ==
    { NoKeys, [rbt12 |-> R(150000)], [rbt12_direto |-> Zero],
      [rbt12_direto |-> R(200000), rbt12 |-> R(720000)] }

InputsZeroRevenue ==
    { Kw([folha_salarial |-> a, base_inss_salario |-> c, base_inss_prolabore |-> d,
          fgts_anual |-> f, cmv |-> g] @@ rb, NoKeys, NoKeys) :
        a \in {Zero, R(20000)}, c \in {Zero, R(10000)}, d \in {Zero, R(5000)},
        f \in {Zero, R(1600)}, g \in {Zero, R(30000)}, rb \in RbtKeys }

\* Payroll plus pro-labore at, just below and above 0.28 of a total revenue
\* of 50,000 (14,000) and of 150,000 (42,000).
InputsSimples ==
    { Kw([faturamento_vendas |-> fv, faturamento_servicos |-> fs, servicoIntelectual |-> si,
          folha_salarial |-> a, prolabore |-> b, fgts_anual |-> f] @@ rb, NoKeys, NoKeys) :
        fv \in {Zero, R(100000)}, fs \in {Zero, R(50000)}, si \in BOOLEAN,
        a \in {Zero, R(13999), R(42000)}, b \in {Zero, R(1)}, f \in {Zero, R(1600)},
        rb \in {NoKeys} \cup {[rbt12 |-> v] : v \in {Zero, R(150000), R(200000), R(5000000)}} }

\* Accounting profits below, at and above 0, and above 240,000.
InputsLucroReal ==
    { Kw([faturamento_vendas |-> fv, cmv |-> g, despesas_operacionais |-> h,
          folha_salarial |-> a, fgts_anual |-> f, base_inss_salario |-> c],
         NoKeys, NoKeys) :
        fv \in {R(100000), R(1000000)}, g \in {Zero, R(40000), R(60000)},
        h \in {Zero, R(40000)}, a \in {Zero, R(10000)},
        f \in {Zero, R(800)}, c \in {Zero, R(10000)} }

\* Revenues giving an IRPJ base of 240,000 and of 240,001 among others; a
\* fractional revenue comes alone.
FaturamentosPresumido ==
    { p \in {Zero, R(100000), R(3000000), Rat(6000025, 2), R(4000000)}
            \X {Zero, R(50000), R(750000), Rat(6000025, 8), R(1000000)} :
        /\ p[1].d = 1 \/ p[2] = Zero
        /\ p[2].d = 1 \/ p[1] = Zero }

InputsLucroPresumido ==
    { Kw([faturamento_vendas |-> p[1], faturamento_servicos |-> p[2],
          base_inss_salario |-> c, fgts_anual |-> f, rbt12 |-> R(150000)], NoKeys, NoKeys) :
        p \in FaturamentosPresumido, c \in {Zero, R(10000)}, f \in {Zero, R(800)} }

\* Regimes costing 50,000 / 45,000 / 70,000 (Simples, Presumido, Real) and
\* 50,000 / 70,000 / 45,000, spreads of 9,999, 10,000 and 10,001, and
\* intellectual services without payroll at rolling revenues of the 6th bracket.
InputsCenarios ==
    { Kw([faturamento_servicos |-> R(50000), servicoIntelectual |-> TRUE, rbt12 |-> rb],
         NoKeys, NoKeys) : rb \in {R(4000000), R(4320000), R(4500000)} } \cup
    { Kw([faturamento_servicos |-> R(200000), servicoIntelectual |-> TRUE, rbt12 |-> R(150000),
          fgts_anual |-> R(19000), base_inss_prolabore |-> R(16700),
          despesas_operacionais |-> R(59500)], NoKeys, NoKeys),
      Kw([faturamento_vendas |-> R(145500), faturamento_servicos |-> R(144500),
          rbt12 |-> R(150000), fgts_anual |-> R(35510), base_inss_prolabore |-> R(47450),
          cmv |-> R(300000)], NoKeys, NoKeys) }
    \cup { Kw([fgts_anual |-> f, modo_calculo |-> m], NoKeys, NoKeys) :
             f \in {R(9999), R(10000), R(10001)}, m \in {"simples", "detalhado"} }

HistConst(v) == [i \in 0..11 |-> v]
HistRamp(base, step) == [i \in 0..11 |-> R(base + i * step)]
HistSpike(pos, v) == [i \in {pos} |-> v]

Historicos ==
    { NoKeys, HistConst(R(15000)), HistConst(R(30000)), HistRamp(10000, 1000),
      HistRamp(36000, -2000), HistSpike(0, R(100000)), HistSpike(0, R(200000)),
      HistSpike(11, R(200000)), [i \in 0..10 |-> R(16000)] }

ProjecoesDadas ==
    { NoKeys, [i \in 1..6 |-> Zero], [i \in 1..6 |-> R(60000)], [i \in {1} |-> R(100000)],
      [i \in {2, 4} |-> R(30000)], [i \in 1..6 |-> R(i * 10000)] }

\* (faturamento_vendas, faturamento_servicos, servicoIntelectual, folha_salarial)
PerfisDetalhado ==
    { <<R(100000), Zero, FALSE, Zero>>, <<Zero, R(50000), TRUE, Zero>>,
      <<R(100000), R(50000), TRUE, R(42000)>>, <<Zero, Zero, FALSE, R(20000)>> }

InputsDetalhado ==
    { Kw([modo_calculo |-> "detalhado", faturamento_vendas |-> p[1],
          faturamento_servicos |-> p[2], servicoIntelectual |-> p[3],
          folha_salarial |-> p[4]], h, pj) :
        p \in PerfisDetalhado, h \in Historicos, pj \in ProjecoesDadas }

\* A history of 3,600,000 (the ceiling of the 5th bracket) and projections that
\* take the rolling revenue to 4,000,000, for goods and for services.
InputsUltimaFaixa ==
    { Kw([modo_calculo |-> "detalhado", faturamento_vendas |-> fv,
          faturamento_servicos |-> fs], HistConst(R(300000)), pj) :
        fv \in {Zero, R(3600000)}, fs \in {Zero, R(3600000)},
        pj \in {NoKeys, [i \in {1} |-> R(700000)]} }

\* A negative goods or services revenue, in both modes.
InputsNegativos ==
    { Kw([faturamento_vendas |-> R(-100000)], NoKeys, NoKeys),
      Kw([faturamento_vendas |-> R(100000), faturamento_servicos |-> R(-50000),
          rbt12 |-> R(150000), base_inss_salario |-> R(10000)], NoKeys, NoKeys),
      Kw([modo_calculo |-> "detalhado", faturamento_servicos |-> R(-50000),
          servicoIntelectual |-> TRUE], HistConst(R(15000)), NoKeys) }

Inputs ==
    InputsZeroRevenue \cup InputsSimples \cup InputsLucroReal \cup InputsLucroPresumido
    \cup InputsCenarios \cup InputsDetalhado \cup InputsUltimaFaixa \cup InputsNegativos

\* The override values calcular_simples_nacional is called with.
RbtCustoms == {None, Some(Zero), Some(R(150000)), Some(R(200000)), Some(R(4800000))}

\* The largest month offset _calcular_rbt12_mes is called with.
MaxMesFuturo == 6

----------------------------------------------------------------------------
(* Calls on the calculator.                                                *)

Init ==
    /\ kwargs \in Inputs
    /\ self = Construct(kwargs)
    /\ ret = NoCall
    /\ hist = NoCall
    /\ session = NoSession

CallCalcularRbt12Mes ==
    \E mes_futuro \in 0..MaxMesFuturo :
        /\ ret' = [op |-> "_calcular_rbt12_mes",
                   args |-> [mes_futuro |-> mes_futuro],
                   result |-> CalcularRbt12Mes(self, mes_futuro),
                   locals |-> [meses_calc |->
                                  IF self.modo_calculo = "detalhado" /\ mes_futuro # 0
                                  THEN MesesCalc(self, mes_futuro) ELSE <<>>]]
        /\ UNCHANGED <<kwargs, self, hist, session>>

CallSimplesNacional ==
    \E rbt12_custom \in RbtCustoms :
        /\ ret' = [op |-> "calcular_simples_nacional",
                   args |-> [rbt12_custom |-> rbt12_custom]]
                  @@ SimplesNacional(self, rbt12_custom)
        /\ UNCHANGED <<kwargs, self, hist, session>>

CallLucroPresumido ==
    /\ ret' = [op |-> "calcular_lucro_presumido"] @@ LucroPresumido(self)
    /\ UNCHANGED <<kwargs, self, hist, session>>

CallLucroReal ==
    /\ ret' = [op |-> "calcular_lucro_real"] @@ LucroReal(self)
    /\ UNCHANGED <<kwargs, self, hist, session>>

CallAnalisarMudancaFaixa ==
    /\ ret' = [op |-> "analisar_mudanca_faixa", result |-> AnalisarMudancaFaixa(self)]
    /\ UNCHANGED <<kwargs, self, hist, session>>

CallSugerirOtimizacoes ==
    /\ ret' = [op |-> "sugerir_otimizacoes", result |-> SugerirOtimizacoes(self)]
    /\ UNCHANGED <<kwargs, self, hist, session>>

Next ==
    \/ CallCalcularRbt12Mes
    \/ CallSimplesNacional
    \/ CallLucroPresumido
    \/ CallLucroReal
    \/ CallAnalisarMudancaFaixa
    \/ CallSugerirOtimizacoes

Spec == Init /\ [][Next]_vars

----------------------------------------------------------------------------
(* The forms posted to /calcular.                                          *)

Form(f, regimes, mes, projecao) ==
    [f |-> f, regimes |-> regimes, mes |-> mes, projecao |-> projecao]

\* The rolling revenue of the form, direct (absent or given) or the months of
\* 'detailed' mode, with the projections sent along.
FormRbt ==
    { <<NoKeys, NoKeys, NoKeys>>,
      <<[rbt12 |-> R(400000)], NoKeys, [i \in {2} |-> R(30000)]>>,
      <<[modo_calculo |-> "detailed"], [i \in 1..12 |-> R(20000)], NoKeys>> }

Forms ==
    { Form([faturamento_vendas |-> fv, faturamento_servicos |-> fs, folha_salarial |-> R(20000),
            prolabore |-> R(5000), aliquota_iss |-> R(5)] @@ cr @@ rb[1],
           rg, rb[2], rb[3]) :
        fv \in {Zero, R(100000)}, fs \in {Zero, R(50000)},
        cr \in {NoKeys, [pis_cofins_creditos |-> R(10000)]},
        rb \in FormRbt,
        rg \in SUBSET {"simples", "presumido", "real"} }

----------------------------------------------------------------------------
(* app.py: CalculadoraTributaria, built from the dados of a form.  A form  *)
(* field holds the number its text reads as; a field not sent is absent.   *)

AppCalculadora(dados) ==
    LET faturamento_vendas == Get(dados, "faturamento_vendas", Zero)
        faturamento_servicos == Get(dados, "faturamento_servicos", Zero)
    IN  [faturamento_vendas |-> faturamento_vendas,
         faturamento_servicos |-> faturamento_servicos,
         rbt12 |-> Get(dados, "rbt12", Zero),
         folha_salarial |-> Get(dados, "folha_salarial", Zero),
         prolabore |-> Get(dados, "prolabore", Zero),
         cmv |-> Get(dados, "cmv", Zero),
         despesas_operacionais |-> Get(dados, "despesas_operacionais", Zero),
         aliquota_iss |-> Get(dados, "aliquota_iss", Zero),
         pis_cofins_creditos |-> Get(dados, "pis_cofins_creditos", Zero),
         faturamento_total |-> RAdd(faturamento_vendas, faturamento_servicos)]

\* imposto_total / faturamento * 100 if faturamento > 0 else 0
AppCargaTributaria(imposto_total, faturamento) ==
    IF RGt(faturamento, Zero) THEN RMul(RDiv(imposto_total, faturamento), R(100)) ELSE Zero

\* The if-chain of calcular_simples_nacional: (aliquota, parcela_deduzir).
AppFaixa(rbt12) ==
    IF RLe(rbt12, R(180000)) THEN [aliquota |-> R(4), parcela_deduzir |-> Zero]
    ELSE IF RLe(rbt12, R(360000)) THEN [aliquota |-> Rat(73, 10), parcela_deduzir |-> R(5940)]
    ELSE IF RLe(rbt12, R(720000)) THEN [aliquota |-> Rat(95, 10), parcela_deduzir |-> R(13860)]
    ELSE IF RLe(rbt12, R(1800000))
         THEN [aliquota |-> Rat(107, 10), parcela_deduzir |-> R(22500)]
    ELSE IF RLe(rbt12, R(3600000))
         THEN [aliquota |-> Rat(143, 10), parcela_deduzir |-> R(87300)]
    ELSE [aliquota |-> R(19), parcela_deduzir |-> R(378000)]

AppSimplesNacional(c) ==
    LET f == AppFaixa(c.rbt12)
        imposto_mensal == RSub(RDiv(RMul(c.faturamento_total, f.aliquota), R(100)),
                               RDiv(f.parcela_deduzir, R(12)))
        inss_prolabore == Pct(c.prolabore, 11, 100)
        imposto_total == RAdd(imposto_mensal, inss_prolabore)
    IN  [regime |-> "Simples Nacional",
         imposto_total |-> imposto_total,
         imposto_mensal |-> imposto_mensal,
         inss_prolabore |-> inss_prolabore,
         aliquota_efetiva |-> f.aliquota,
         carga_tributaria |-> AppCargaTributaria(imposto_total, c.faturamento_total),
         faixa_rbt12 |-> c.rbt12]

AppInss(c) ==
    RAdd(Pct(RAdd(c.folha_salarial, c.prolabore), 20, 100), Pct(c.prolabore, 11, 100))

AppIss(c) == RMul(c.faturamento_servicos, RDiv(c.aliquota_iss, R(100)))

AppLucroPresumido(c) ==
    LET pis == Pct(c.faturamento_total, 65, 10000)
        cofins == Pct(c.faturamento_total, 3, 100)
        base_presumida == Pct(c.faturamento_total, 32, 100)
        irpj == Pct(base_presumida, 15, 100)
        csll == Pct(base_presumida, 9, 100)
        imposto_total ==
            RAdd(RAdd(RAdd(RAdd(RAdd(pis, cofins), irpj), csll), AppInss(c)), AppIss(c))
    IN  [regime |-> "Lucro Presumido",
         imposto_total |-> imposto_total,
         pis |-> pis, cofins |-> cofins, irpj |-> irpj, csll |-> csll,
         inss |-> AppInss(c), iss |-> AppIss(c),
         carga_tributaria |-> AppCargaTributaria(imposto_total, c.faturamento_total)]

AppLucroReal(c) ==
    LET pis == RSub(Pct(c.faturamento_total, 165, 10000), Pct(c.pis_cofins_creditos, 165, 10000))
        cofins == RSub(Pct(c.faturamento_total, 76, 1000), Pct(c.pis_cofins_creditos, 76, 1000))
        lucro_real == RSub(RSub(RSub(RSub(c.faturamento_total, c.cmv), c.despesas_operacionais),
                                c.folha_salarial), c.prolabore)
        irpj == IF RGt(lucro_real, Zero) THEN Pct(lucro_real, 15, 100) ELSE Zero
        csll == IF RGt(lucro_real, Zero) THEN Pct(lucro_real, 9, 100) ELSE Zero
        imposto_total ==
            RAdd(RAdd(RAdd(RAdd(RAdd(pis, cofins), irpj), csll), AppInss(c)), AppIss(c))
    IN  [regime |-> "Lucro Real",
         imposto_total |-> imposto_total,
         pis |-> pis, cofins |-> cofins, irpj |-> irpj, csll |-> csll,
         inss |-> AppInss(c), iss |-> AppIss(c),
         lucro_real |-> lucro_real,
         carga_tributaria |-> AppCargaTributaria(imposto_total, c.faturamento_total)]

\* calcular_projecao_rbt12
AppProjecaoRbt12(rbt12_atual, projecao1, projecao2, projecao3) ==
    IF projecao1 = Zero /\ projecao2 = Zero /\ projecao3 = Zero THEN None
    ELSE LET faturamento_medio == RDiv(rbt12_atual, R(12))
             rbt12_mes1 == RAdd(RSub(rbt12_atual, faturamento_medio), projecao1)
             rbt12_mes2 == RAdd(RSub(rbt12_mes1, faturamento_medio), projecao2)
             rbt12_mes3 == RAdd(RSub(rbt12_mes2, faturamento_medio), projecao3)
         IN  Some([mes1 |-> rbt12_mes1, mes2 |-> rbt12_mes2, mes3 |-> rbt12_mes3])

\* The resultados dict, in insertion order: (key, result) pairs.
AppResultados(calc, regimes_selecionados) ==
    (IF "simples" \in regimes_selecionados
     THEN << [key |-> "simples_nacional", r |-> AppSimplesNacional(calc)] >> ELSE <<>>)
    \o (IF "presumido" \in regimes_selecionados
        THEN << [key |-> "lucro_presumido", r |-> AppLucroPresumido(calc)] >> ELSE <<>>)
    \o (IF "real" \in regimes_selecionados
        THEN << [key |-> "lucro_real", r |-> AppLucroReal(calc)] >> ELSE <<>>)

\* min(resultados.keys(), key=lambda r: resultados[r]['carga_tributaria'])
RECURSIVE AppMinLoop(_, _, _)
AppMinLoop(resultados, i, best) ==
    IF i > Len(resultados) THEN resultados[best].key
    ELSE AppMinLoop(resultados, i + 1,
                    IF RLt(resultados[i].r.carga_tributaria, resultados[best].r.carga_tributaria)
                    THEN i ELSE best)

AppRecomendado(resultados) ==
    IF resultados = <<>> THEN "None" ELSE AppMinLoop(resultados, 2, 1)

\* The dados of the request: the form's fields, and the rolling revenue, which
\* in 'detailed' mode is the sum of the twelve months of the form.
AppValoresMensais(form) == [i \in 1..12 |-> Get(form.mes, i, Zero)]

AppDados(form) ==
    LET modo_calculo == Get(form.f, "modo_calculo", "simple")
        base == [k \in (DOMAIN form.f) \ {"rbt12", "modo_calculo"} |-> form.f[k]]
                @@ [modo_calculo |-> modo_calculo,
                    projecao1 |-> Get(form.projecao, 1, Zero),
                    projecao2 |-> Get(form.projecao, 2, Zero),
                    projecao3 |-> Get(form.projecao, 3, Zero)]
    IN  IF modo_calculo = "detailed"
        THEN LET valores_mensais == AppValoresMensais(form)
                 dados == base @@ [rbt12 |-> RSum(valores_mensais)]
             IN  dados @@
                 [valores_mensais |-> valores_mensais,
                  impostos_mensais |->
                      [i \in 1..12 |->
                          AppSimplesNacional(AppCalculadora(
                              [faturamento_vendas |-> valores_mensais[i],
                               faturamento_servicos |-> Zero] @@ dados)).imposto_mensal]]
        ELSE base @@ [rbt12 |-> Get(form.f, "rbt12", Zero)]

\* What POST /calcular leaves in the session.
AppSession(dados, resultados) ==
    [set |-> TRUE,
     dados_simulacao |-> dados,
     resultados |-> resultados,
     projecao |-> AppProjecaoRbt12(dados.rbt12, dados.projecao1,
                                   dados.projecao2, dados.projecao3),
     recomendado |-> AppRecomendado(resultados)]

AppHandle(form) ==
    LET dados == AppDados(form)
    IN  AppSession(dados, AppResultados(AppCalculadora(dados), form.regimes))

\* AppHandle, tabulated over the forms explored.
AppHandleOf == [form \in Forms |-> AppHandle(form)]

\* POST /calcular
Calcular ==
    \E form \in Forms :
        /\ session' = AppHandleOf[form]
        /\ UNCHANGED <<kwargs, self, ret, hist>>

InitApp ==
    /\ kwargs = EmptyKw
    /\ self = Construct(kwargs)
    /\ ret = NoCall
    /\ hist = NoCall
    /\ session = NoSession

SpecApp == InitApp /\ [][Calcular]_vars

----------------------------------------------------------------------------
(* _get_faixa_simples called on its own, two calls remembered.             *)

\* Every ceiling, one above every ceiling, a value between, 0 and a value
\* above every ceiling.
RbtFaixas ==
    {Zero, Rat(360001, 2), R(6000000)}
    \cup {ANEXO_I_COMERCIO[i].limite : i \in 1..6}
    \cup {RAdd(ANEXO_I_COMERCIO[i].limite, R(1)) : i \in 1..6}

InitFaixa ==
    /\ kwargs = EmptyKw
    /\ self = Construct(kwargs)
    /\ ret = NoCall
    /\ hist = NoCall
    /\ session = NoSession

CallGetFaixaSimples ==
    \E rbt12 \in RbtFaixas, tabela \in TabelaNomes :
        /\ ret' = [op |-> "_get_faixa_simples",
                   args |-> [rbt12 |-> rbt12, tabela |-> tabela],
                   result |-> GetFaixaSimples(rbt12, Tabela(tabela))]
        /\ hist' = ret
        /\ UNCHANGED <<kwargs, self, session>>

SpecFaixa == InitFaixa /\ [][CallGetFaixaSimples]_vars

----------------------------------------------------------------------------
(* Properties.                                                             *)

\* The 1-based position of the first entry of `tabela` whose ceiling is >= r,
\* the last position when there is none.
PrimeiraFaixa(r, tabela) ==
    LET cabem == {i \in 1..Len(tabela) : RGe(tabela[i].limite, r)}
    IN  IF cabem = {} THEN Len(tabela)
        ELSE CHOOSE i \in cabem : \A j \in cabem : i <= j

\* C1: for a non-negative rolling revenue and each of the three tables,
\* _get_faixa_simples returns the rate and deduction of the first entry whose
\* ceiling is >= the revenue, with its index in 1..6 (the last entry, index 6,
\* above every ceiling), and of two calls on the same table the one with the
\* smaller revenue does not return the larger index.
C1_FaixaResolver ==
    ret.op = "_get_faixa_simples" /\ RGe(ret.args.rbt12, Zero) =>
        LET tabela == Tabela(ret.args.tabela)
            idx == PrimeiraFaixa(ret.args.rbt12, tabela)
        IN  /\ ret.result.faixa = idx
            /\ ret.result.faixa \in 1..6
            /\ ret.result.aliquota = tabela[idx].aliquota
            /\ ret.result.deducao = tabela[idx].deducao
            /\ (\A i \in 1..6 : RGt(ret.args.rbt12, tabela[i].limite))
                   => ret.result = [aliquota |-> tabela[6].aliquota,
                                    deducao |-> tabela[6].deducao, faixa |-> 6]
            /\ hist.op = "_get_faixa_simples" /\ hist.args.tabela = ret.args.tabela
               /\ RLe(hist.args.rbt12, ret.args.rbt12)
                   => hist.result.faixa <= ret.result.faixa

\* A call above every ceiling after a call, on the same table, of a lower bracket.
C1_Witness ==
    /\ ret.op = "_get_faixa_simples" /\ hist.op = "_get_faixa_simples"
    /\ hist.args.tabela = ret.args.tabela
    /\ RLt(hist.args.rbt12, ret.args.rbt12)
    /\ RGt(ret.args.rbt12, R(4800000))
    /\ hist.result.faixa = 2 /\ ret.result.faixa = 6

IsCalculo == ret.op \in {"calcular_simples_nacional", "calcular_lucro_presumido",
                         "calcular_lucro_real"}

SemFaturamento == self.faturamento_vendas = Zero /\ self.faturamento_servicos = Zero

\* 25.8% of the salary INSS base + 20% of the pro-labore INSS base + annual FGTS.
EncargosEFgts ==
    RAdd(RAdd(Rat(258 * self.base_inss_salario.n, 1000 * self.base_inss_salario.d),
              Rat(20 * self.base_inss_prolabore.n, 100 * self.base_inss_prolabore.d)),
         self.fgts_anual)

TributosZerados ==
    /\ ret.result.irpj = Zero /\ ret.result.adicional_irpj = Zero /\ ret.result.csll = Zero
    /\ ret.result.pis = Zero /\ ret.result.cofins = Zero

\* C2 as stated: with a total revenue of 0 each of the three calculators
\* returns without a division by zero and reports carga_tributaria_total = 0.
C2_Original ==
    IsCalculo /\ SemFaturamento =>
        ret.result # Raised /\ ret.result.carga_tributaria_total = Zero

\* C2 as amended: with goods and services revenue both 0, each of the three
\* calculators returns without a division by zero; calcular_simples_nacional
\* reports carga_tributaria_total = 0; calcular_lucro_presumido and
\* calcular_lucro_real report IRPJ, surtax, CSLL, PIS and COFINS as 0 and
\* carga_tributaria_total = employer payroll charge + annual FGTS.
C2_ZeroRevenue ==
    IsCalculo /\ SemFaturamento =>
        /\ ret.result # Raised
        /\ ret.op = "calcular_simples_nacional" =>
               ret.result.carga_tributaria_total = Zero /\ ret.result.imposto_das = Zero
        /\ ret.op # "calcular_simples_nacional" =>
               TributosZerados /\ ret.result.carga_tributaria_total = EncargosEFgts

\* calcular_lucro_real on a zero-revenue input with payroll bases and FGTS.
C2_Witness ==
    /\ ret.op = "calcular_lucro_real" /\ SemFaturamento
    /\ RGt(self.base_inss_salario, Zero) /\ RGt(self.base_inss_prolabore, Zero)
    /\ RGt(self.fgts_anual, Zero)
    /\ RGt(ret.result.carga_tributaria_total, Zero)

RECURSIVE SomaIndices(_, _, _)
SomaIndices(f, lo, hi) == IF lo > hi THEN Zero ELSE RAdd(SomaIndices(f, lo, hi - 1), f[hi])

\* C3: in detalhado mode, for an offset k in 0..6, _calcular_rbt12_mes(k) is
\* the sum of the history without its first k entries plus the sum of the
\* first k projections, and the window summed holds 12 months.
C3_JanelaRbt12 ==
    /\ ret.op = "_calcular_rbt12_mes" /\ self.modo_calculo = "detalhado"
    /\ ret.args.mes_futuro \in 0..6
    => LET k == ret.args.mes_futuro
       IN  /\ Len(self.meses_anteriores) = 12
           /\ ret.result = RAdd(SomaIndices(self.meses_anteriores, k + 1, 12),
                                SomaIndices(self.projecoes, 1, k))
           /\ k = 0 => ret.result = SomaIndices(self.meses_anteriores, 1, 12)
           /\ k > 0 => Len(ret.locals.meses_calc) = 12

\* Offset 6 on a history whose window changes.
C3_Witness ==
    /\ ret.op = "_calcular_rbt12_mes" /\ self.modo_calculo = "detalhado"
    /\ ret.args.mes_futuro = 6
    /\ ret.result # self.rbt12
    /\ \E i \in 1..6 : self.projecoes[i] # self.projecoes[1]

\* C4 as stated: the rolling revenue used is the override whenever one is
\* supplied, 0 included, and the input's own only when none is supplied.
C4_Original ==
    ret.op = "calcular_simples_nacional" =>
        /\ ret.args.rbt12_custom = Some(Zero) => ret.locals.rbt12_usado = Zero
        /\ ret.locals.rbt12_usado = self.rbt12 /\ self.rbt12 # Zero
               => ~ret.args.rbt12_custom.some \/ ret.args.rbt12_custom.v = self.rbt12

FaturamentoValido ==
    /\ RGe(self.faturamento_vendas, Zero) /\ RGe(self.faturamento_servicos, Zero)
    /\ RGt(self.faturamento_total, Zero)

\* (payroll + pro-labore) / total revenue < 0.28, for a positive total revenue.
FatorRAbaixo ==
    LET massa == RAdd(self.folha_salarial, self.prolabore)
    IN  100 * massa.n * self.faturamento_total.d < 28 * self.faturamento_total.n * massa.d

\* C5: with services revenue > 0, the services tax is resolved against
\* Anexo V exactly when the qualifying-service flag is set and
\* (payroll + pro-labore) / total revenue < 0.28, and against Anexo III in
\* every other case.
C5_TabelaServicos ==
    /\ ret.op = "calcular_simples_nacional" /\ FaturamentoValido
    /\ RGt(self.faturamento_servicos, Zero)
    => /\ ret.locals.tabela_servicos = "ANEXO_V_SERVICOS_INTELECTUAIS"
              <=> (self.servicoIntelectual /\ FatorRAbaixo)
       /\ ret.locals.tabela_servicos = "ANEXO_III_SERVICOS"
              <=> ~(self.servicoIntelectual /\ FatorRAbaixo)

\* The flag set and a ratio of exactly 0.28: Anexo III.
C5_Witness ==
    /\ ret.op = "calcular_simples_nacional" /\ RGt(self.faturamento_servicos, Zero)
    /\ self.servicoIntelectual
    /\ RMul(RAdd(self.folha_salarial, self.prolabore), R(100))
           = RMul(self.faturamento_total, R(28))
    /\ ret.locals.tabela_servicos = "ANEXO_III_SERVICOS"

\* revenue * ((r * nominal - deduction) / r), the rate and deduction being
\* those of the first entry of `tabela` whose ceiling is >= r.
ImpostoDaTabela(receita, r, tabela) ==
    LET f == tabela[PrimeiraFaixa(r, tabela)]
    IN  RMul(receita, RDiv(RSub(RMul(r, f.aliquota), f.deducao), r))

\* C6: with total revenue > 0 and a rolling revenue used r > 0, imposto_das is
\* goods revenue * effective goods rate + services revenue * effective
\* services rate, each resolved at r from its table, and
\* carga_tributaria_total is that tax + annual FGTS; goods revenue 100,000,
\* no services and r = 150,000 give a tax of 4,000.
C6_ImpostoDas ==
    /\ ret.op = "calcular_simples_nacional" /\ FaturamentoValido
    /\ RGt(ret.locals.rbt12_usado, Zero)
    => LET r == ret.locals.rbt12_usado
           servicos == IF self.servicoIntelectual /\ FatorRAbaixo
                       THEN ANEXO_V_SERVICOS_INTELECTUAIS ELSE ANEXO_III_SERVICOS
           imposto == RAdd(ImpostoDaTabela(self.faturamento_vendas, r, ANEXO_I_COMERCIO),
                           ImpostoDaTabela(self.faturamento_servicos, r, servicos))
       IN  /\ ret.result.rbt12_usado = r
           /\ ret.result.imposto_das = imposto
           /\ ret.result.carga_tributaria_total = RAdd(imposto, self.fgts_anual)
           /\ self.faturamento_vendas = R(100000) /\ self.faturamento_servicos = Zero
              /\ r = R(150000) => ret.result.imposto_das = R(4000)

\* Goods revenue 100,000, no services, rolling revenue 150,000, FGTS 1,600.
C6_Witness ==
    /\ ret.op = "calcular_simples_nacional"
    /\ self.faturamento_vendas = R(100000) /\ self.faturamento_servicos = Zero
    /\ ret.locals.rbt12_usado = R(150000)
    /\ ret.result.imposto_das = R(4000)
    /\ ret.result.carga_tributaria_total = R(5600)

\* total revenue - cost of goods sold - operating expenses - payroll
\* - pro-labore - annual FGTS
LucroDoExercicio ==
    RSub(self.faturamento_total,
         RAdd(RAdd(RAdd(RAdd(self.cmv, self.despesas_operacionais), self.folha_salarial),
                   self.prolabore), self.fgts_anual))

\* C7: in calcular_lucro_real, an accounting profit <= 0 gives IRPJ, surtax,
\* CSLL, PIS and COFINS of 0, a fiscal loss equal to the absolute value of the
\* profit (0 for a profit of 0), and a total cost of employer payroll charge
\* + annual FGTS.
C7_Prejuizo ==
    ret.op = "calcular_lucro_real" /\ RLe(LucroDoExercicio, Zero) =>
        /\ TributosZerados
        /\ "prejuizo_fiscal" \in DOMAIN ret.result
        /\ "prejuizo_fiscal" \in DOMAIN ret.result =>
              /\ ret.result.prejuizo_fiscal = RAbs(LucroDoExercicio)
              /\ LucroDoExercicio = Zero => ret.result.prejuizo_fiscal = Zero
        /\ ret.result.carga_tributaria_total = EncargosEFgts

\* A positive revenue, a profit of exactly 0 and a payroll charge.
C7_Witness ==
    /\ ret.op = "calcular_lucro_real"
    /\ RGt(self.faturamento_total, Zero) /\ LucroDoExercicio = Zero
    /\ ret.result.prejuizo_fiscal = Zero
    /\ RGt(ret.result.carga_tributaria_total, Zero)

\* 8% of goods revenue + 32% of services revenue
BaseIrpj ==
    RAdd(Rat(8 * self.faturamento_vendas.n, 100 * self.faturamento_vendas.d),
         Rat(32 * self.faturamento_servicos.n, 100 * self.faturamento_servicos.d))

\* C8: in calcular_lucro_presumido, adicional_irpj is 10% of
\* max(0, IRPJ base - 240,000): 0 for a base <= 240,000, 0.10 for a base of
\* 240,001, never negative.
C8_AdicionalIrpj ==
    ret.op = "calcular_lucro_presumido" =>
        /\ RLe(BaseIrpj, R(240000)) => ret.result.adicional_irpj = Zero
        /\ RGt(BaseIrpj, R(240000)) =>
               ret.result.adicional_irpj = RDiv(RSub(BaseIrpj, R(240000)), R(10))
        /\ BaseIrpj = R(240001) => ret.result.adicional_irpj = Rat(1, 10)
        /\ RGe(ret.result.adicional_irpj, Zero)

\* An IRPJ base of 240,001.
C8_Witness ==
    /\ ret.op = "calcular_lucro_presumido"
    /\ BaseIrpj = R(240001)
    /\ ret.result.adicional_irpj = Rat(1, 10)

\* The suggestions of sugerir_otimizacoes of tipo 'regime_tributario'.
SugestoesDeRegime ==
    {i \in 1..Len(ret.result) : ret.result[i].tipo = "regime_tributario"}

\* The three regimes' total costs, by the name the suggestion gives them.
CustoDoRegime(nome) ==
    CASE nome = "Simples Nacional" ->
             SimplesNacional(self, None).result.carga_tributaria_total
      [] nome = "Lucro Presumido" -> LucroPresumido(self).result.carga_tributaria_total
      [] nome = "Lucro Real" -> LucroReal(self).result.carga_tributaria_total

NomesDosRegimes == {"Simples Nacional", "Lucro Presumido", "Lucro Real"}

\* C10: sugerir_otimizacoes emits a high-priority suggestion of tipo
\* 'regime_tributario' exactly when the highest of the three regimes' total
\* costs exceeds the lowest by more than 10,000, and the regime it names has
\* the lowest total cost; costs of 50,000 / 45,000 / 70,000 give the
\* suggestion, naming the regime that costs 45,000.
C10_SugestaoRegime ==
    ret.op = "sugerir_otimizacoes" =>
        LET distantes == \E a, b \in NomesDosRegimes :
                             RGt(RSub(CustoDoRegime(a), CustoDoRegime(b)), R(10000))
        IN  /\ SugestoesDeRegime # {} <=> distantes
            /\ Cardinality(SugestoesDeRegime) <= 1
            /\ \A i \in SugestoesDeRegime :
                   /\ ret.result[i].prioridade = "alta"
                   /\ ret.result[i].melhor_regime \in NomesDosRegimes
                   /\ \A n \in NomesDosRegimes :
                          RLe(CustoDoRegime(ret.result[i].melhor_regime), CustoDoRegime(n))
            /\ {CustoDoRegime(n) : n \in NomesDosRegimes} = {R(50000), R(45000), R(70000)}
                   => \E i \in SugestoesDeRegime :
                          CustoDoRegime(ret.result[i].melhor_regime) = R(45000)

\* Costs of 50,000 (Simples), 45,000 (Presumido) and 70,000 (Real).
C10_Witness ==
    /\ ret.op = "sugerir_otimizacoes"
    /\ CustoDoRegime("Simples Nacional") = R(50000)
    /\ CustoDoRegime("Lucro Presumido") = R(45000)
    /\ CustoDoRegime("Lucro Real") = R(70000)
    /\ \E i \in SugestoesDeRegime :
           /\ ret.result[i].melhor_regime = "Lucro Presumido"
           /\ ret.result[i].economia_potencial = R(25000)

FaturamentoNegativo ==
    \/ RLt(Get(kwargs.s, "faturamento_vendas", Zero), Zero)
    \/ RLt(Get(kwargs.s, "faturamento_servicos", Zero), Zero)

\* C11 as stated: an input with negative goods or services revenue is
\* rejected when the calculator is constructed, so that no regime calculator
\* returns a result for it.
C11_Original ==
    FaturamentoNegativo => ~(IsCalculo /\ ret.result # Raised)

\* The rolling revenue at offset k: the history without its first k months
\* plus the first k projections.
RbtDoMes(k) ==
    RAdd(SomaIndices(self.meses_anteriores, k + 1, 12), SomaIndices(self.projecoes, 1, k))

\* The bracket index of the simplified-regime computation at a rolling revenue r.
FaixaDoRbt(r) == SimplesNacionalCalculo(self, r).result.faixa

\* The alerts of analisar_mudanca_faixa for month m.
AlertasDe(m) == {i \in 1..Len(ret.result) : ret.result[i].mes = m}

\* C12 as stated: in detalhado mode with total revenue > 0, for each offset k
\* in 0..5 there is an alert for month k + 1 exactly when the bracket index
\* resolved for the rolling revenue at offset k differs from the one resolved
\* for the rolling revenue at offset k + 1, and the alert's rbt12_atual and
\* rbt12_novo are the rolling revenues the two computations used; in simples
\* mode there is no alert.
C12_Original ==
    ret.op = "analisar_mudanca_faixa" =>
        /\ self.modo_calculo # "detalhado" => ret.result = <<>>
        /\ self.modo_calculo = "detalhado" /\ FaturamentoValido =>
               \A k \in 0..5 :
                   /\ AlertasDe(k + 1) # {}
                          <=> FaixaDoRbt(RbtDoMes(k)) # FaixaDoRbt(RbtDoMes(k + 1))
                   /\ \A i \in AlertasDe(k + 1) :
                          /\ ret.result[i].rbt12_atual = RbtDoMes(k)
                          /\ ret.result[i].rbt12_novo = RbtDoMes(k + 1)
                          /\ SimplesNacional(self, Some(RbtDoMes(k))).locals.rbt12_usado
                                 = ret.result[i].rbt12_atual
                          /\ SimplesNacional(self, Some(RbtDoMes(k + 1))).locals.rbt12_usado
                                 = ret.result[i].rbt12_novo

\* The arithmetic mean of the last 3 months of the history.
MediaTresMeses ==
    RDiv(RAdd(RAdd(self.meses_anteriores[10], self.meses_anteriores[11]),
              self.meses_anteriores[12]), R(3))

\* C13 as stated: in detalhado mode the projections are 6, the i-th being the
\* projecao_i given whenever one is given, a given 0 included, and the mean of
\* the last 3 months of the history only when none is given.
C13_Original ==
    self.modo_calculo = "detalhado" =>
        /\ Len(self.projecoes) = 6
        /\ \A i \in 1..6 :
               /\ i \in DOMAIN kwargs.projecao => self.projecoes[i] = kwargs.projecao[i]
               /\ i \notin DOMAIN kwargs.projecao => self.projecoes[i] = MediaTresMeses

\* The suggestions of sugerir_otimizacoes of tipo 'fator_r'.
SugestoesFatorR == {i \in 1..Len(ret.result) : ret.result[i].tipo = "fator_r"}

\* The services tax of calcular_simples_nacional at the input's rolling
\* revenue, were the services resolved against `tabela`.
ImpostoServicosNa(tabela) ==
    RMul(self.faturamento_servicos,
         AliqEfetiva(self.rbt12, GetFaixaSimples(self.rbt12, tabela)))

\* C14 as stated: whenever sugerir_otimizacoes emits the 'fator_r' suggestion,
\* for a non-negative rolling revenue, the services tax under Anexo III is at
\* most the services tax under Anexo V.
C14_Original ==
    ret.op = "sugerir_otimizacoes" /\ SugestoesFatorR # {} /\ RGe(self.rbt12, Zero) =>
        RLe(ImpostoServicosNa(ANEXO_III_SERVICOS),
            ImpostoServicosNa(ANEXO_V_SERVICOS_INTELECTUAIS))

\* The suggestions of sugerir_otimizacoes of tipo 'mudanca_faixa'.
SugestoesDeMudanca == {i \in 1..Len(ret.result) : ret.result[i].tipo = "mudanca_faixa"}

\* C15 as stated: every 'mudanca_faixa' suggestion of sugerir_otimizacoes
\* reports a monthly tax increase of more than 5,000.
C15_Original ==
    ret.op = "sugerir_otimizacoes" =>
        \A i \in SugestoesDeMudanca : RGt(ret.result[i].impacto_mensal, R(5000))

\* The position in `resultados` of the first regime of the lowest imposto_total.
PrimeiroMaisBarato(resultados) ==
    CHOOSE i \in 1..Len(resultados) :
        /\ \A j \in 1..Len(resultados) :
               RLe(resultados[i].r.imposto_total, resultados[j].r.imposto_total)
        /\ \A j \in 1..(i - 1) :
               RGt(resultados[j].r.imposto_total, resultados[i].r.imposto_total)

\* C9 as stated: with at least one regime selected, the recommended regime is
\* a selected regime of the lowest total tax amount, the first such in
\* iteration order.
C9_Original ==
    session.set /\ session.resultados # <<>> =>
        /\ \E i \in 1..Len(session.resultados) :
               session.resultados[i].key = session.recomendado
        /\ session.recomendado
               = session.resultados[PrimeiroMaisBarato(session.resultados)].key

====
